---- MODULE Spec2Model ----
\* codemap (src/src/main.rs): the incremental repository index and its
\* diff-and-merge engine, the metrics recorder, the entry-point fallback and
\* the init / update / auth commands over the .codemap directory.
EXTENDS Integers, Sequences, FiniteSets, TLC

VARIABLES
    tree,         \* the working directory's source files: path -> <<>> or <<content>>
    dirExists,    \* .codemap/ is a directory
    logFile,      \* .codemap/log.json exists
    configFile,   \* .codemap/config.toml: <<>> or <<"default">> or <<"keyed">>
    contextFile,  \* .codemap/context.json: <<>> or <<ProjectContext>>
    metricsFile,  \* .codemap/metrics.json: <<>> or <<history>>
    last,         \* what the most recent step was and how the command ended
    edits,        \* how many times the user has edited a file so far
    mOld, mNew,   \* inputs of merge_contexts (MergeSpec)
    mMerged,      \* <<>> or <<merge_contexts(mOld, mNew)>>
    mCounts,      \* <<>> or <<diff_function_counts(mOld, merged)>>
    fRun,         \* <<>> or <<one run of the heuristic fallback>> (FallbackSpec)
    xRun          \* <<>> or <<one call of extract_functions>> (ExtractSpec)

vars == <<tree, dirExists, logFile, configFile, contextFile, metricsFile, last, edits,
          mOld, mNew, mMerged, mCounts, fRun, xRun>>
sysVars == <<tree, dirExists, logFile, configFile, contextFile, metricsFile, last, edits>>
pureVars == <<mOld, mNew, mMerged, mCounts, fRun, xRun>>

\* ---------------------------------------------------------------- bounds
\* longest function list of a file drawn as input of the merge
MaxLen == 2
\* most update records the history is followed for
MaxUpdates == 2
\* most edits the user makes between and around the commands
MaxEdits == 2

\* ---------------------------------------------------------------- options
\* Option<T>: None is the empty sequence, Some(x) the one-element sequence.
None == <<>>
Some(x) == <<x>>
IsSome(o) == Len(o) = 1
Unwrap(o) == o[1]

MaxOf(S) == CHOOSE x \in S : \A y \in S : y <= x
SeqsUpTo(S, n) == UNION {[1..k -> S] : k \in 0..n}

\* ---------------------------------------------------------------- data model
\* struct FunctionInfo { name, line, summary: Option<String>, hash }
FunctionInfo(n, l, s, h) == [name |-> n, line |-> l, summary |-> s, hash |-> h]
\* struct FileContext { language, functions: Vec<FunctionInfo> }
FileContext(lang, fns) == [language |-> lang, functions |-> fns]
\* struct EntryPoint { path, rank: u8, reason }
EntryPoint(p, r, why) == [path |-> p, rank |-> r, reason |-> why]
\* struct ProjectContext { folders, files, entry_points, project_brief }
ProjectContext(fo, fi, eps, brief) ==
    [folders |-> fo, files |-> fi, entry_points |-> eps, project_brief |-> brief]

\* HashMap::get / contains_key on a map modelled as a function
HasKey(m, k) == k \in DOMAIN m
EmptyMap == [k \in {} |-> {}]

\* ---------------------------------------------------------------- merge
\* old_map after the insert loop has run over fns[1..k]: a later insert of the
\* same key overwrites the earlier one.
RECURSIVE old_map_upto(_, _)
old_map_upto(fns, k) ==
    IF k = 0 THEN EmptyMap
    ELSE LET m == old_map_upto(fns, k - 1)
             n == fns[k].name
         IN [x \in DOMAIN m \cup {n} |-> IF x = n THEN fns[k] ELSE m[x]]

\* a map that keeps the first record inserted under a name
RECURSIVE old_map_first(_)
old_map_first(fns) ==
    IF fns = <<>> THEN EmptyMap
    ELSE LET m == old_map_first(SubSeq(fns, 1, Len(fns) - 1))
             f == fns[Len(fns)]
         IN IF f.name \in DOMAIN m THEN m
            ELSE [x \in DOMAIN m \cup {f.name} |-> IF x = f.name THEN f ELSE m[x]]

old_map(fns) == old_map_upto(fns, Len(fns))

\* a merge step that keeps the old summary whatever the hashes are
merged_function_keep(om, nf) ==
    IF ~HasKey(om, nf.name) THEN nf
    ELSE [nf EXCEPT !.summary = om[nf.name].summary]

\* one iteration of the loop over newf.functions: the record pushed for nf
merged_function(om, nf) ==
    IF ~HasKey(om, nf.name) THEN nf
    ELSE IF om[nf.name].hash = nf.hash
         THEN [nf EXCEPT !.summary = om[nf.name].summary]
         ELSE [nf EXCEPT !.summary = None]

merge_file_contexts(old, newf) ==
    LET om == old_map(old.functions)
    IN FileContext(newf.language,
                   [i \in 1..Len(newf.functions) |-> merged_function(om, newf.functions[i])])

\* a project merge that also keeps the files only the old snapshot has
merged_files_keep_old(old_ctx, new_ctx) ==
    [p \in DOMAIN new_ctx.files \cup DOMAIN old_ctx.files |->
        IF ~HasKey(new_ctx.files, p) THEN old_ctx.files[p]
        ELSE IF HasKey(old_ctx.files, p)
             THEN merge_file_contexts(old_ctx.files[p], new_ctx.files[p])
             ELSE new_ctx.files[p]]

merged_files(old_ctx, new_ctx) ==
    [p \in DOMAIN new_ctx.files |->
        IF HasKey(old_ctx.files, p)
        THEN merge_file_contexts(old_ctx.files[p], new_ctx.files[p])
        ELSE new_ctx.files[p]]

\* a project merge that starts from the fresh snapshot's onboarding data
merge_contexts_fresh(old_ctx, new_ctx) ==
    ProjectContext(new_ctx.folders, merged_files(old_ctx, new_ctx),
                   new_ctx.entry_points, new_ctx.project_brief)

merge_contexts(old_ctx, new_ctx) ==
    ProjectContext(new_ctx.folders, merged_files(old_ctx, new_ctx),
                   old_ctx.entry_points, old_ctx.project_brief)

\* ---------------------------------------------------------------- metrics
\* the counters after the inner loop has run over the functions nfs of one
\* file present in both snapshots: <<added, modified, unchanged>>
RECURSIVE count_functions(_, _)
count_functions(om, nfs) ==
    IF nfs = <<>> THEN <<0, 0, 0>>
    ELSE LET c == count_functions(om, Tail(nfs))
             nf == Head(nfs)
         IN IF ~HasKey(om, nf.name) THEN <<c[1] + 1, c[2], c[3]>>
            ELSE IF om[nf.name].hash = nf.hash THEN <<c[1], c[2], c[3] + 1>>
            ELSE <<c[1], c[2] + 1, c[3]>>

\* a count that forgets the functions of the files only `new` has
file_counts_skip_new(old, new, path) ==
    LET newf == new.files[path]
        n == Len(newf.functions)
    IN IF ~HasKey(old.files, path) THEN <<n, 0, 0, 0>>
       ELSE LET c == count_functions(old_map(old.files[path].functions), newf.functions)
            IN <<n, c[1], c[2], c[3]>>

\* the contribution of one file of `new`: <<total, added, modified, unchanged>>
file_counts(old, new, path) ==
    LET newf == new.files[path]
        n == Len(newf.functions)
    IN IF ~HasKey(old.files, path) THEN <<n, n, 0, 0>>
       ELSE LET c == count_functions(old_map(old.files[path].functions), newf.functions)
            IN <<n, c[1], c[2], c[3]>>

RECURSIVE sum_counts(_, _, _)
sum_counts(old, new, paths) ==
    IF paths = {} THEN <<0, 0, 0, 0>>
    ELSE LET p == CHOOSE x \in paths : TRUE
             c == file_counts(old, new, p)
             r == sum_counts(old, new, paths \ {p})
         IN <<c[1] + r[1], c[2] + r[2], c[3] + r[3], c[4] + r[4]>>

\* (total, added, modified, unchanged)
diff_function_counts(old, new) == sum_counts(old, new, DOMAIN new.files)

\* ---------------------------------------------------------------- paths
\* The paths the model walks. A path is a string; what the code asks of a path
\* (its extension, its components, a prefix, a substring) is tabulated below.
Paths ==
    {"README.md", "app.js", "src/bin/a.rs", "src/bin/cli.rs", "src/cli.py",
     "src/lib.rs", "src/main.rs", "src/server.rs", "src/util.rs"}

\* Vec<String>::sort: the paths in byte order ('R' sorts before 'a')
SortedPaths ==
    <<"README.md", "app.js", "src/bin/a.rs", "src/bin/cli.rs", "src/cli.py",
      "src/lib.rs", "src/main.rs", "src/server.rs", "src/util.rs">>

\* Path::extension
Extension(p) ==
    IF p = "README.md" THEN "md"
    ELSE IF p = "app.js" THEN "js"
    ELSE IF p = "src/cli.py" THEN "py"
    ELSE "rs"

\* Path::components, below "."
Components(p) ==
    CASE p = "README.md" -> <<"README.md">>
      [] p = "app.js" -> <<"app.js">>
      [] p = "src/bin/a.rs" -> <<"src", "bin", "a.rs">>
      [] p = "src/bin/cli.rs" -> <<"src", "bin", "cli.rs">>
      [] p = "src/cli.py" -> <<"src", "cli.py">>
      [] p = "src/lib.rs" -> <<"src", "lib.rs">>
      [] p = "src/main.rs" -> <<"src", "main.rs">>
      [] p = "src/server.rs" -> <<"src", "server.rs">>
      [] p = "src/util.rs" -> <<"src", "util.rs">>

\* k.to_lowercase() ends with "readme.md" or "readme"
IsReadme(p) == p \in {"README.md"}
\* k.starts_with("src/bin/")
IsBin(p) == p \in {"src/bin/a.rs", "src/bin/cli.rs"}
\* k.to_lowercase() contains one of route, router, handler, server, controller,
\* cli, command
MatchesPats(p) == p \in {"src/bin/cli.rs", "src/cli.py", "src/server.rs"}

\* l.contains("router") || l.contains("route")
ContainsRoute(p) == p \in {}
\* l.contains("handler")
ContainsHandler(p) == p \in {}
\* l.contains("server")
ContainsServer(p) == p \in {"src/server.rs"}

detect_language(extension) ==
    CASE extension = "rs" -> Some("rust")
      [] extension = "py" -> Some("python")
      [] extension = "js" -> Some("javascript")
      [] extension = "ts" -> Some("typescript")
      [] extension = "java" -> Some("java")
      [] extension = "go" -> Some("go")
      [] extension \in {"cpp", "cc", "cxx", "c++"} -> Some("cpp")
      [] extension = "c" -> Some("c")
      [] OTHER -> None

heuristic_reason(p) ==
    IF p = "src/main.rs" THEN "Binary entrypoint"
    ELSE IF p = "src/lib.rs" THEN "Library root"
    ELSE IF IsBin(p) THEN "CLI subcommand entrypoint"
    ELSE IF ContainsRoute(p) THEN "Routing hub"
    ELSE IF ContainsHandler(p) THEN "Request handler"
    ELSE IF ContainsServer(p) THEN "Server bootstrap"
    ELSE IF IsReadme(p) THEN "Project docs"
    ELSE "Likely important module"

\* ---------------------------------------------------------------- snapshot
\* A file's content is the functions its text holds: <<name, hash of the body>>
\* in source order. The extractor numbers them; here function i starts at line i.
file_functions(content, lang) ==
    IF lang = "rust"
    THEN [i \in 1..Len(content) |-> FunctionInfo(content[i][1], i, None, content[i][2])]
    ELSE <<>>

\* the names read_dir lists in .codemap/
CodemapChildren(log, config, context, metrics) ==
    (IF log THEN {"log.json"} ELSE {})
    \cup (IF config # <<>> THEN {"config.toml"} ELSE {})
    \cup (IF context # <<>> THEN {"context.json"} ELSE {})
    \cup (IF metrics # <<>> THEN {"metrics.json"} ELSE {})

\* the files present in the tree
Present(t) == {p \in DOMAIN t : t[p] # <<>>}
\* the directories above a path, each as its components below "."
DirsAbove(p) == {SubSeq(Components(p), 1, k) : k \in 0..(Len(Components(p)) - 1)}
\* the directories the walk visits: ".", those above a file, and .codemap
WalkedDirs(t, dir) ==
    {<<>>} \cup UNION {DirsAbove(p) : p \in Present(t)}
           \cup (IF dir THEN {<<".codemap">>} ELSE {})

\* folders: every visited directory with the names read_dir lists in it
walked_folders(t, dir, codemap) ==
    [d \in WalkedDirs(t, dir) |->
        IF d = <<".codemap">> THEN codemap
        ELSE {Components(p)[Len(d) + 1] : p \in {q \in Present(t) : d \in DirsAbove(q)}}
             \cup (IF d = <<>> /\ dir THEN {".codemap"} ELSE {})]

\* files: every regular file whose extension has a language and whose bytes
\* could be read
walked_files(t, unreadable) ==
    [p \in {q \in Present(t) : /\ detect_language(Extension(q)) # None
                              /\ q \notin unreadable} |->
        FileContext(Unwrap(detect_language(Extension(p))),
                    file_functions(Unwrap(t[p]), Unwrap(detect_language(Extension(p)))))]

build_context(t, unreadable, dir, codemap) ==
    ProjectContext(walked_folders(t, dir, codemap), walked_files(t, unreadable), <<>>, None)

\* build_context as a Result: `entry?` (line 234) and `fs::read_dir(path)?`
\* (line 258) return the error of a directory that cannot be listed, so one
\* such directory among those visited ends the walk with Err (None here); a
\* file whose bytes cannot be read is skipped (lines 286-288)
build_context_result(t, unreadable, unlistable, dir, codemap) ==
    IF unlistable \cap WalkedDirs(t, dir) # {} THEN None
    ELSE Some(build_context(t, unreadable, dir, codemap))

\* ---------------------------------------------------------------- entry points
\* build_entry_candidates(&merged, 15, 40_000)
RankerMaxFiles == 15
\* build_entry_candidates(&merged, 10, 40_000)
FallbackMaxFiles == 10
\* .take(7)
FallbackTake == 7
\* rank: (10 - i as u8).max(1)
TopRank == 10
MinRank == 1

Reverse(q) == [i \in 1..Len(q) |-> q[Len(q) + 1 - i]]
\* HashMap iteration order is unspecified: the keys come in one of these orders
\* (between them, any two keys come in either order)
HashOrders == {SortedPaths, Reverse(SortedPaths)}

InSeq(q, x) == \E i \in 1..Len(q) : q[i] = x
\* the elements of the sequence `order` that satisfy Keep, in that order
RECURSIVE Filtered(_, _)
Filtered(order, keep) ==
    IF order = <<>> THEN <<>>
    ELSE IF Head(order) \in keep THEN <<Head(order)>> \o Filtered(Tail(order), keep)
    ELSE Filtered(Tail(order), keep)

\* push_file: `out` holds the paths pushed so far (seen is their set); a path is
\* pushed when it is new, a key of ctx.files, and read_to_string succeeds on it
push_file(ctx, path, text_ok, out) ==
    IF InSeq(out, path) \/ ~HasKey(ctx.files, path) THEN out
    ELSE IF path \in text_ok THEN Append(out, path)
    ELSE out

\* a loop `for k in q { push_file(k); if out.len() >= max_files { return out; } }`
\* joined to what came before: once out is full every later loop returns at once
RECURSIVE push_each(_, _, _, _, _)
push_each(ctx, q, text_ok, out, max_files) ==
    IF q = <<>> \/ Len(out) >= max_files THEN out
    ELSE push_each(ctx, Tail(q), text_ok, push_file(ctx, Head(q), text_ok, out), max_files)

\* sort_by_key(usize::MAX - functions.len()): stable, most functions first
RECURSIVE by_function_count(_, _)
by_function_count(ctx, q) ==
    IF q = <<>> THEN <<>>
    ELSE LET rest == by_function_count(ctx, SubSeq(q, 1, Len(q) - 1))
             x == q[Len(q)]
             n(k) == Len(ctx.files[k].functions)
             before == {i \in 1..Len(rest) : n(rest[i]) >= n(x)}
             cut == IF before = {} THEN 0 ELSE MaxOf(before)
         IN SubSeq(rest, 1, cut) \o <<x>> \o SubSeq(rest, cut + 1, Len(rest))

\* the candidate paths, in order (the snippets only feed the ranker's prompt)
build_entry_candidates(ctx, text_ok, order, max_files) ==
    LET keys == Filtered(order, DOMAIN ctx.files)
        readmes == Filtered(keys, {k \in DOMAIN ctx.files : IsReadme(k)})
        \* 1) README: the first key found, at most one
        out1 == IF readmes = <<>> THEN <<>>
                ELSE push_each(ctx, <<Head(readmes)>>, text_ok, <<>>, max_files)
        \* 2) main/lib
        out2 == push_each(ctx, <<"src/main.rs", "src/lib.rs">>, text_ok, out1, max_files)
        \* 3) bin/*
        out3 == push_each(ctx,
                          Filtered(SortedPaths, {k \in DOMAIN ctx.files : IsBin(k)}),
                          text_ok, out2, max_files)
        \* 4) routing/handler/server-ish files
        out4 == push_each(ctx,
                          Filtered(SortedPaths, {k \in DOMAIN ctx.files : MatchesPats(k)}),
                          text_ok, out3, max_files)
        \* 5) fill remaining by function count (descending)
        remaining == by_function_count(ctx,
                          Filtered(keys, {k \in DOMAIN ctx.files : ~InSeq(out4, k)}))
    IN push_each(ctx, remaining, text_ok, out4, max_files)

\* a rank that counts up from the bottom
fallback_rank_up(i) == IF MinRank + i < TopRank THEN MinRank + i ELSE TopRank
\* (10 - i as u8).max(1), i counted from 0
fallback_rank(i) == IF TopRank - i > MinRank THEN TopRank - i ELSE MinRank

Placeholder == "No LLM brief available. Showing heuristic entry points to start reading the codebase."

\* cands.iter().take(7).enumerate().map(..).collect()
fallback_entries(cands) ==
    [k \in 1..(IF Len(cands) < FallbackTake THEN Len(cands) ELSE FallbackTake) |->
        EntryPoint(cands[k], fallback_rank(k - 1), heuristic_reason(cands[k]))]

\* lines 673-689: the fallback, when entry_points is empty after the ranker step
heuristic_fallback(merged, text_ok, order) ==
    IF merged.entry_points # <<>> THEN merged
    ELSE [merged EXCEPT
            !.entry_points =
                fallback_entries(build_entry_candidates(merged, text_ok, order, FallbackMaxFiles)),
            !.project_brief =
                IF merged.project_brief = None THEN Some(Placeholder) ELSE merged.project_brief]

\* ---------------------------------------------------------------- commands
\* the most recent step: the command run, how it ended, what the ranker step
\* did and whether the heuristic fallback rewrote entry_points
LastStep(cmd, result, ranker, fallback) ==
    [cmd |-> cmd, result |-> result, ranker |-> ranker, fallback |-> fallback]

\* the source files the commands are followed over, and their contents
SysPaths == {"src/main.rs"}
SysContents == {<<<<"f", "h1">>>>, <<<<"f", "h2">>>>}
NoTree == [p \in Paths |-> <<>>]

\* get_api_key: OPENAI_API_KEY, or else the configuration's llm_api_key; the
\* default configuration sets llm_api_key = "", a key that is present
has_api_key(env_key, config) == env_key \/ config # Some("nokey")

\* what openai_rank may answer over the candidates sent to it: no entry, or the
\* first candidate with a rank and a reason
RankerAnswers(cands) ==
    {[entries |-> <<>>, project_brief |-> "llm brief"],
     [entries |-> <<EntryPoint(cands[1], 9, "llm")>>, project_brief |-> "llm brief"]}

\* a ranker step that clears the onboarding data before asking
ranker_step_clear(merged, cands, has_key, answer) ==
    IF cands = <<>> \/ ~has_key \/ answer = None
    THEN [merged EXCEPT !.entry_points = <<>>, !.project_brief = None]
    ELSE [merged EXCEPT !.entry_points = Unwrap(answer).entries,
                        !.project_brief = Some(Unwrap(answer).project_brief)]

\* lines 648-671: the ranker step. `answer` is None when openai_rank fails.
ranker_step(merged, cands, has_key, answer) ==
    IF cands = <<>> \/ ~has_key \/ answer = None THEN merged
    ELSE [merged EXCEPT !.entry_points = Unwrap(answer).entries,
                        !.project_brief = Some(Unwrap(answer).project_brief)]

ranker_outcome(cands, has_key, answer) ==
    IF cands = <<>> \/ ~has_key THEN "skipped"
    ELSE IF answer = None THEN "failed" ELSE "ok"

\* lines 691-723: the record of one update (duration_ms, a wall-clock reading,
\* is left out); reuse_ratio is the fraction <<numerator, denominator>>
update_metrics(prev, merged) ==
    LET c == diff_function_counts(prev, merged)
    IN [total_files |-> Cardinality(DOMAIN merged.files),
        total_functions |-> c[1],
        added_functions |-> c[2],
        modified_functions |-> c[3],
        removed_functions |-> 0,
        unchanged_functions |-> c[4],
        reuse_ratio |-> IF c[4] + c[3] > 0 THEN <<c[4], c[4] + c[3]>> ELSE <<1, 1>>]

\* write_metrics, lines 70-73: the stored history when metrics.json is there,
\* can be read and parses as a list of records (`parsed`); an empty one otherwise
read_history(stored, parsed) ==
    IF stored = <<>> \/ ~parsed THEN <<>> ELSE Unwrap(stored)

\* write_metrics: the history read, with m pushed
written_metrics(stored, parsed, m) ==
    Some(Append(read_history(stored, parsed), m))

HistoryLen == IF metricsFile = <<>> THEN 0 ELSE Len(Unwrap(metricsFile))

\* How each file of the tree reads during one command: "ok", "bytes" (fs::read
\* succeeds, read_to_string does not: the text is not UTF-8) or "none"
Reads(t) == [Present(t) -> {"ok", "bytes", "none"}]
Unreadable(reads) == {p \in DOMAIN reads : reads[p] = "none"}
TextOk(reads) == {p \in DOMAIN reads : reads[p] = "ok"}

\* init(), lines 197-225
Init_cmd ==
    /\ UNCHANGED <<tree, metricsFile, edits>>
    /\ UNCHANGED pureVars
    /\ IF logFile /\ configFile # <<>>
       THEN /\ last' = LastStep("init", "already", "-", FALSE)
            /\ UNCHANGED <<dirExists, logFile, configFile, contextFile>>
       ELSE /\ dirExists' = TRUE
            /\ logFile' = TRUE
            /\ configFile' = Some("default")
            /\ \/ \* build_context fails: a visited directory cannot be listed
                  /\ \E d \in WalkedDirs(tree, TRUE) :
                        build_context_result(tree, {}, {d}, TRUE,
                            CodemapChildren(TRUE, Some("default"),
                                            contextFile, metricsFile)) = None
                  /\ contextFile' = contextFile
                  /\ last' = LastStep("init", "walk_error", "-", FALSE)
               \/ \E reads \in Reads(tree) :
                  /\ contextFile' =
                        Some(build_context(tree, Unreadable(reads), TRUE,
                                CodemapChildren(TRUE, Some("default"),
                                                contextFile, metricsFile)))
                  /\ last' = LastStep("init", "ok", "-", FALSE)

\* update_context(), lines 626-734
Update ==
    /\ HistoryLen < MaxUpdates
    /\ UNCHANGED <<tree, dirExists, logFile, configFile, edits>>
    /\ UNCHANGED pureVars
    /\ IF ~dirExists
       THEN /\ last' = LastStep("update", "not_initialized", "-", FALSE)
            /\ UNCHANGED <<contextFile, metricsFile>>
       ELSE IF contextFile = <<>>
       THEN /\ last' = LastStep("update", "io_error", "-", FALSE)
            /\ UNCHANGED <<contextFile, metricsFile>>
       ELSE \/ \* build_context fails: a visited directory cannot be listed
               /\ \E d \in WalkedDirs(tree, dirExists) :
                     build_context_result(tree, {}, {d}, dirExists,
                         CodemapChildren(logFile, configFile,
                                         contextFile, metricsFile)) = None
               /\ last' = LastStep("update", "walk_error", "-", FALSE)
               /\ UNCHANGED <<contextFile, metricsFile>>
            \/ \* the write of context.json fails
               /\ last' = LastStep("update", "io_error", "-", FALSE)
               /\ UNCHANGED <<contextFile, metricsFile>>
            \/ \E reads \in Reads(tree), order \in HashOrders,
                  env_key \in (IF configFile = Some("nokey") THEN BOOLEAN ELSE {FALSE}) :
               LET prev == Unwrap(contextFile)
                   fresh == build_context(tree, Unreadable(reads), dirExists,
                                CodemapChildren(logFile, configFile, contextFile, metricsFile))
                   merged == merge_contexts(prev, fresh)
                   text_ok == TextOk(reads)
                   cands == build_entry_candidates(merged, text_ok, order, RankerMaxFiles)
                   has_key == has_api_key(env_key, configFile)
               IN \E answer \in {None} \cup (IF cands = <<>> \/ ~has_key THEN {}
                                             ELSE {Some(a) : a \in RankerAnswers(cands)}),
                     metrics_ok \in BOOLEAN,
                     parsed \in (IF metricsFile = <<>> THEN {FALSE} ELSE BOOLEAN) :
                  LET ranked == ranker_step(merged, cands, has_key, answer)
                      final == heuristic_fallback(ranked, text_ok, order)
                  IN /\ last' = LastStep("update",
                                          IF metrics_ok THEN "ok" ELSE "io_error",
                                          ranker_outcome(cands, has_key, answer),
                                          ranked.entry_points = <<>>)
                     /\ contextFile' = Some(final)
                     /\ metricsFile' = IF metrics_ok
                                       THEN written_metrics(metricsFile, parsed,
                                                            update_metrics(prev, final))
                                       ELSE metricsFile

\* auth_set(), lines 780-791
Auth ==
    /\ dirExists' = TRUE
    /\ configFile' = Some("keyed")
    /\ last' = LastStep("auth", "ok", "-", FALSE)
    /\ UNCHANGED <<tree, logFile, contextFile, metricsFile, edits>>
    /\ UNCHANGED pureVars

\* ---------------------------------------------------------------- the user
LastEdit == LastStep("edit", "-", "-", FALSE)

\* one more edit by the user, within the budget
Edited ==
    /\ edits < MaxEdits
    /\ edits' = edits + 1
    /\ last' = LastEdit
    /\ UNCHANGED pureVars

\* a source file is created or rewritten
WriteSource ==
    /\ Edited
    /\ \E p \in SysPaths, c \in SysContents :
        /\ tree[p] # Some(c)
        /\ tree' = [tree EXCEPT ![p] = Some(c)]
    /\ UNCHANGED <<dirExists, logFile, configFile, contextFile, metricsFile>>

\* a source file is deleted
DeleteSource ==
    /\ Edited
    /\ \E p \in SysPaths :
        /\ tree[p] # <<>>
        /\ tree' = [tree EXCEPT ![p] = <<>>]
    /\ UNCHANGED <<dirExists, logFile, configFile, contextFile, metricsFile>>

\* a summary is written into context.json by hand
EditSummary ==
    /\ Edited
    /\ contextFile # <<>>
    /\ \E p \in DOMAIN Unwrap(contextFile).files :
       \E i \in 1..Len(Unwrap(contextFile).files[p].functions) :
        /\ Unwrap(contextFile).files[p].functions[i].summary = None
        /\ contextFile' =
            Some([Unwrap(contextFile) EXCEPT !.files[p].functions[i].summary = Some("entry")])
    /\ UNCHANGED <<tree, dirExists, logFile, configFile, metricsFile>>

\* the llm_api_key line is taken out of config.toml by hand
EditConfig ==
    /\ Edited
    /\ configFile \notin {<<>>, Some("nokey")}
    /\ configFile' = Some("nokey")
    /\ UNCHANGED <<tree, dirExists, logFile, contextFile, metricsFile>>

\* the notes log is removed
DeleteLog ==
    /\ Edited
    /\ logFile
    /\ logFile' = FALSE
    /\ UNCHANGED <<tree, dirExists, configFile, contextFile, metricsFile>>

Unset == <<>>
Init ==
    /\ tree \in {t \in [Paths -> {<<>>} \cup {Some(c) : c \in SysContents}] :
                    \A p \in Paths \ SysPaths : t[p] = <<>>}
    /\ dirExists = FALSE
    /\ logFile = FALSE
    /\ configFile = <<>>
    /\ contextFile = <<>>
    /\ metricsFile = <<>>
    /\ last = LastStep("none", "-", "-", FALSE)
    /\ edits = 0
    /\ mOld = Unset /\ mNew = Unset /\ mMerged = Unset /\ mCounts = Unset /\ fRun = Unset
    /\ xRun = Unset

Next ==
    \/ Init_cmd
    \/ Update
    \/ Auth
    \/ WriteSource
    \/ DeleteSource
    \/ EditSummary
    \/ EditConfig
    \/ DeleteLog

Spec == Init /\ [][Next]_vars

\* ---------------------------------------------------------------- command claims
Stored == Unwrap(contextFile)
StoredFiles == <<dirExists, logFile, configFile, contextFile, metricsFile>>

\* C5 as stated: in every snapshot stored in context.json, every entry of
\* entry_points has a path that is a key of the snapshot's files.
C5_EntryPathsAreFiles ==
    contextFile # <<>> =>
        \A i \in 1..Len(Stored.entry_points) :
            HasKey(Stored.files, Stored.entry_points[i].path)

\* C7: an update that wrote context.json, in which the ranker was skipped or
\* failed and the previous snapshot had entry points, stored the previous
\* entry_points and project_brief, and the fallback did not rewrite them.
C7_FailedRankerKeepsOnboarding ==
    [][(/\ last'.cmd = "update"
        /\ last'.ranker \in {"skipped", "failed"}
        /\ contextFile # <<>>
        /\ Stored.entry_points # <<>>)
       => (/\ contextFile' # <<>>
           /\ Unwrap(contextFile').entry_points = Stored.entry_points
           /\ Unwrap(contextFile').project_brief = Stored.project_brief
           /\ ~last'.fallback)]_vars

\* C7 witness: an update has just stored a snapshot after the ranker failed,
\* the fallback did not run, and the stored entry points (those of the
\* snapshot before) are still there.
C7_Witness ==
    /\ last.cmd = "update"
    /\ last.result = "ok"
    /\ last.ranker = "failed"
    /\ ~last.fallback
    /\ contextFile # <<>>
    /\ Stored.entry_points # <<>>
    /\ Stored.project_brief = Some(Placeholder)

\* C9 as stated: an init invoked while context.json and config.toml both exist
\* reports that the project is initialized and leaves every file under
\* .codemap as it was.
C9_InitNoOpWhenContextAndConfig ==
    [][(last'.cmd = "init" /\ contextFile # <<>> /\ configFile # <<>>)
       => (last'.result = "already" /\ UNCHANGED StoredFiles)]_vars

\* C10 as stated: an update invoked while context.json does not exist ends in
\* the not-initialized error, whether or not .codemap exists.
C10_UpdateBeforeInitGuides ==
    (last.cmd = "update" /\ contextFile = <<>>) => last.result = "not_initialized"

\* C11 as stated: an update that fails on the write of context.json or on the
\* read-modify-write of metrics.json leaves both files with the content they
\* had before the command.
C11_FailedUpdateKeepsStateFiles ==
    [][(last'.cmd = "update" /\ last'.result = "io_error")
       => UNCHANGED <<contextFile, metricsFile>>]_vars

History == IF metricsFile = <<>> THEN <<>> ELSE Unwrap(metricsFile)

\* C12 as stated: after every successful update the history stored in
\* metrics.json is the history stored before it with exactly one record
\* appended at the end; no earlier record is removed, reordered or altered.
C12_HistoryAppendOnly ==
    [][(last'.cmd = "update" /\ last'.result = "ok")
       => (/\ metricsFile' # <<>>
           /\ Len(Unwrap(metricsFile')) = Len(History) + 1
           /\ SubSeq(Unwrap(metricsFile'), 1, Len(History)) = History)]_vars

\* C13 as stated: init and update never fail because of an unreadable entry
\* met by the walk; build_context skips it and still returns a snapshot.
C13_WalkNeverAborts ==
    last.cmd \in {"init", "update"} => last.result # "walk_error"

\* ---------------------------------------------------------------- merge inputs
Names == {"f", "g"}
Hashes == {"h1", "h2"}
Summaries == {None, Some("entry")}

\* a function list as the extractor numbers it, `shift` lines further down
FunctionList(recs, shift) ==
    [i \in 1..Len(recs) |-> FunctionInfo(recs[i][1], i + shift, recs[i][3], recs[i][2])]

\* the stored lists: any names, hashes and summaries, duplicate names included
OldLists == {FunctionList(r, 0) : r \in SeqsUpTo(Names \X Hashes \X Summaries, MaxLen)}
\* the fresh lists: build_context leaves every summary absent
NewLists == {FunctionList(r, s) : r \in SeqsUpTo(Names \X Hashes \X {None}, MaxLen), s \in {0, 1}}

\* the folders a walk records over a tree with the source files `paths`
FoldersOf(paths) ==
    [d \in {""} \cup (IF paths = {} THEN {} ELSE {"src"}) |->
        IF d = "" THEN (IF paths = {} THEN {} ELSE {"src"})
        ELSE (IF "src/main.rs" \in paths THEN {"main.rs"} ELSE {})
             \cup (IF "src/util.rs" \in paths THEN {"util.rs"} ELSE {})]

UtilOld == FileContext("rust", <<FunctionInfo("g", 1, Some("helper"), "h1")>>)
UtilNew == FileContext("rust", <<FunctionInfo("g", 1, None, "h1")>>)

\* a map with the file `a` under src/main.rs (when present) and the file `b`
\* under src/util.rs (when hasB)
FilesOf(a, hasB, b) ==
    [p \in (IF a = <<>> THEN {} ELSE {"src/main.rs"})
           \cup (IF hasB THEN {"src/util.rs"} ELSE {}) |->
        IF p = "src/main.rs" THEN FileContext("rust", a[1]) ELSE b]

SysIdle ==
    /\ tree = NoTree
    /\ dirExists = FALSE
    /\ logFile = FALSE
    /\ configFile = <<>>
    /\ contextFile = <<>>
    /\ metricsFile = <<>>
    /\ last = LastStep("none", "-", "-", FALSE)
    /\ edits = 0

MergeInit ==
    /\ SysIdle
    /\ fRun = Unset
    /\ xRun = Unset
    /\ mMerged = Unset
    /\ mCounts = Unset
    /\ \E oa \in {<<>>} \cup {<<l>> : l \in OldLists},
          na \in {<<>>} \cup {<<l>> : l \in NewLists},
          ob \in BOOLEAN, nb \in BOOLEAN, onboarded \in BOOLEAN :
        /\ mOld = ProjectContext(
                    FoldersOf(DOMAIN FilesOf(oa, ob, UtilOld)),
                    FilesOf(oa, ob, UtilOld),
                    IF onboarded THEN <<EntryPoint("src/main.rs", 10, "Binary entrypoint")>>
                                 ELSE <<>>,
                    IF onboarded THEN Some("brief") ELSE None)
        /\ mNew = ProjectContext(FoldersOf(DOMAIN FilesOf(na, nb, UtilNew)),
                                 FilesOf(na, nb, UtilNew), <<>>, None)

\* update_context, lines 633 and 694-695: merge, then count against the merge
ApplyMerge ==
    /\ mMerged = Unset
    /\ mMerged' = Some(merge_contexts(mOld, mNew))
    /\ mCounts' = Some(diff_function_counts(mOld, merge_contexts(mOld, mNew)))
    /\ UNCHANGED <<mOld, mNew, fRun, xRun>>
    /\ UNCHANGED sysVars

MergeNext == ApplyMerge
MergeSpec == MergeInit /\ [][MergeNext]_vars

\* ---------------------------------------------------------------- merge claims
Merged == Unwrap(mMerged)
SharedPaths == DOMAIN mOld.files \cap DOMAIN mNew.files
OldFns(p) == mOld.files[p].functions
NewFns(p) == mNew.files[p].functions
\* the indices of the old records of file p that bear the name n
OldIndices(p, n) == {j \in 1..Len(OldFns(p)) : OldFns(p)[j].name = n}
\* the last old record of file p that bears the name n
LastOld(p, n) == OldFns(p)[MaxOf(OldIndices(p, n))]

\* C1 as stated: after merge_contexts(old, new), in every path of both
\* snapshots, every new record for which the old file holds a record of the same
\* name and hash is merged with that old record's summary, duplicate names
\* included.
C1_CarryForwardAnyRecord ==
    mMerged # Unset =>
        \A p \in SharedPaths : \A i \in 1..Len(NewFns(p)) : \A j \in 1..Len(OldFns(p)) :
            (OldFns(p)[j].name = NewFns(p)[i].name /\ OldFns(p)[j].hash = NewFns(p)[i].hash)
                => Merged.files[p].functions[i].summary = OldFns(p)[j].summary

\* C1 amended: after merge_contexts(old, new), in every path of both snapshots,
\* every new record whose name's LAST record in the old file has the same hash
\* is merged with the summary of that last old record.
C1_CarryForwardLastRecord ==
    mMerged # Unset =>
        \A p \in SharedPaths : \A i \in 1..Len(NewFns(p)) :
            LET nf == NewFns(p)[i]
            IN (OldIndices(p, nf.name) # {} /\ LastOld(p, nf.name).hash = nf.hash)
                => Merged.files[p].functions[i].summary = LastOld(p, nf.name).summary

\* C1 witness: a merge has run in which the old file repeats a name, the last
\* record of that name has the new record's hash and a summary, and the merged
\* record carries it.
C1_Witness ==
    /\ mMerged # Unset
    /\ \E p \in SharedPaths : \E i \in 1..Len(NewFns(p)) :
        LET nf == NewFns(p)[i]
        IN /\ Cardinality(OldIndices(p, nf.name)) > 1
           /\ LastOld(p, nf.name).hash = nf.hash
           /\ LastOld(p, nf.name).summary # None
           /\ Merged.files[p].functions[i].summary = LastOld(p, nf.name).summary

\* C2 as stated: after merge_contexts(old, new), in every path of both
\* snapshots, every new record whose name is found in the old file with a
\* differing hash is merged with summary absent.
C2_InvalidateAnyRecord ==
    mMerged # Unset =>
        \A p \in SharedPaths : \A i \in 1..Len(NewFns(p)) :
            (\E j \in OldIndices(p, NewFns(p)[i].name) : OldFns(p)[j].hash # NewFns(p)[i].hash)
                => Merged.files[p].functions[i].summary = None

\* C2 amended: after merge_contexts(old, new), in every path of both snapshots,
\* every new record whose name's LAST record in the old file has a differing
\* hash is merged with summary absent, whatever summary that old record had.
C2_InvalidateLastRecord ==
    mMerged # Unset =>
        \A p \in SharedPaths : \A i \in 1..Len(NewFns(p)) :
            LET nf == NewFns(p)[i]
            IN (OldIndices(p, nf.name) # {} /\ LastOld(p, nf.name).hash # nf.hash)
                => Merged.files[p].functions[i].summary = None

\* C2 witness: a merge has run over an old record that had a summary and whose
\* hash differs from the new record's, and the merged summary is absent.
C2_Witness ==
    /\ mMerged # Unset
    /\ \E p \in SharedPaths : \E i \in 1..Len(NewFns(p)) :
        LET nf == NewFns(p)[i]
        IN /\ OldIndices(p, nf.name) # {}
           /\ LastOld(p, nf.name).hash # nf.hash
           /\ LastOld(p, nf.name).summary # None
           /\ Merged.files[p].functions[i].summary = None

\* C3: the merged snapshot has exactly the new snapshot's paths and folders, and
\* every merged function list has the new list's length with the same name, line
\* and hash at every position; so no merged record bears a name absent from the
\* new file and no path of the old snapshot alone is in the merged files.
C3_MergeShape ==
    mMerged # Unset =>
        /\ DOMAIN Merged.files = DOMAIN mNew.files
        /\ Merged.folders = mNew.folders
        /\ \A p \in DOMAIN mNew.files :
            /\ Len(Merged.files[p].functions) = Len(NewFns(p))
            /\ \A i \in 1..Len(NewFns(p)) :
                /\ Merged.files[p].functions[i].name = NewFns(p)[i].name
                /\ Merged.files[p].functions[i].line = NewFns(p)[i].line
                /\ Merged.files[p].functions[i].hash = NewFns(p)[i].hash
            /\ \A i \in 1..Len(Merged.files[p].functions) :
                \E k \in 1..Len(NewFns(p)) :
                    NewFns(p)[k].name = Merged.files[p].functions[i].name
        /\ \A p \in DOMAIN mOld.files \ DOMAIN mNew.files : p \notin DOMAIN Merged.files

\* C3 witness: a merge has run in which the old snapshot had a path the new one
\* lacks, and a shared file lost a function name and moved another to a new line.
C3_Witness ==
    /\ mMerged # Unset
    /\ DOMAIN mOld.files \ DOMAIN mNew.files # {}
    /\ \E p \in SharedPaths :
        /\ \E j \in 1..Len(OldFns(p)) : OldIndices(p, OldFns(p)[j].name) # {}
              /\ \A i \in 1..Len(NewFns(p)) : NewFns(p)[i].name # OldFns(p)[j].name
        /\ \E i \in 1..Len(NewFns(p)) :
              /\ OldIndices(p, NewFns(p)[i].name) # {}
              /\ LastOld(p, NewFns(p)[i].name).line # NewFns(p)[i].line
              /\ Merged.files[p].functions[i].line = NewFns(p)[i].line

\* the fresh snapshot is built from the tree the stored one was built from
SameTree(ctx, fresh) ==
    /\ fresh.folders = ctx.folders
    /\ DOMAIN fresh.files = DOMAIN ctx.files
    /\ fresh.entry_points = <<>>
    /\ fresh.project_brief = None
    /\ \A p \in DOMAIN ctx.files :
        /\ fresh.files[p].language = ctx.files[p].language
        /\ Len(fresh.files[p].functions) = Len(ctx.files[p].functions)
        /\ \A i \in 1..Len(ctx.files[p].functions) :
            /\ fresh.files[p].functions[i].name = ctx.files[p].functions[i].name
            /\ fresh.files[p].functions[i].line = ctx.files[p].functions[i].line
            /\ fresh.files[p].functions[i].hash = ctx.files[p].functions[i].hash
            /\ fresh.files[p].functions[i].summary = None

\* entry by entry
SameContext(a, b) ==
    /\ DOMAIN a.folders = DOMAIN b.folders
    /\ \A d \in DOMAIN a.folders : a.folders[d] = b.folders[d]
    /\ DOMAIN a.files = DOMAIN b.files
    /\ \A p \in DOMAIN a.files : a.files[p] = b.files[p]
    /\ a.entry_points = b.entry_points
    /\ a.project_brief = b.project_brief

\* every record of the stored snapshot agrees with the last record of its name:
\* same hash and same summary, or another hash and no summary
AgreesWithLast(ctx) ==
    \A p \in DOMAIN ctx.files :
        LET fns == ctx.files[p].functions
        IN \A i \in 1..Len(fns) :
            LET l == fns[MaxOf({j \in 1..Len(fns) : fns[j].name = fns[i].name})]
            IN \/ l.hash = fns[i].hash /\ l.summary = fns[i].summary
               \/ l.hash # fns[i].hash /\ fns[i].summary = None

\* C4 as stated: merging any stored snapshot with a fresh snapshot of the same
\* unchanged tree gives back the stored snapshot, entry by entry.
C4_IdempotentAnySnapshot ==
    (mMerged # Unset /\ SameTree(mOld, mNew)) => SameContext(Merged, mOld)

\* C4 amended: merging a stored snapshot with a fresh snapshot of the same
\* unchanged tree gives back the stored snapshot exactly when every stored
\* record agrees with the last record of its name in its file (same hash and
\* summary, or another hash and no summary); in particular whenever no file
\* repeats a function name.
C4_IdempotentUpToLastRecord ==
    (mMerged # Unset /\ SameTree(mOld, mNew)) =>
        (SameContext(Merged, mOld) <=> AgreesWithLast(mOld))

\* C4 witness: a stored snapshot with a summary, entry points and a brief has
\* been merged with the fresh snapshot of its own tree, and came back unchanged.
C4_Witness ==
    /\ mMerged # Unset
    /\ SameTree(mOld, mNew)
    /\ mOld.entry_points # <<>>
    /\ mOld.project_brief # None
    /\ \E p \in DOMAIN mOld.files : \E i \in 1..Len(OldFns(p)) : OldFns(p)[i].summary # None
    /\ SameContext(Merged, mOld)

\* ---------------------------------------------------------------- metric claims
RECURSIVE TotalFunctions(_, _)
TotalFunctions(files, paths) ==
    IF paths = {} THEN 0
    ELSE LET p == CHOOSE x \in paths : TRUE
         IN Len(files[p].functions) + TotalFunctions(files, paths \ {p})

\* C6: for the pair (previous, merged) passed to diff_function_counts, the
\* returned added + modified + unchanged equals the returned total, and the
\* total is the sum of the merged files' function-list lengths.
C6_MetricIdentity ==
    mCounts # Unset =>
        LET c == Unwrap(mCounts)
        IN /\ c[2] + c[3] + c[4] = c[1]
           /\ c[1] = TotalFunctions(Merged.files, DOMAIN Merged.files)

\* C6 witness: counts have been taken over a merge with a file only the new
\* snapshot has, and with added, modified and unchanged functions all present.
C6_Witness ==
    /\ mCounts # Unset
    /\ DOMAIN mNew.files \ DOMAIN mOld.files # {}
    /\ SharedPaths # {}
    /\ Unwrap(mCounts)[2] > 0
    /\ Unwrap(mCounts)[3] > 0
    /\ Unwrap(mCounts)[4] > 0

\* ---------------------------------------------------------------- fallback runs
\* the contents a file of the drawn tree may have
FallbackContents(p) ==
    IF p = "src/util.rs" THEN {<<>>, <<<<"f", "h1">>>>} ELSE {<<<<"f", "h1">>>>}

FallbackInit ==
    /\ tree \in {t \in [Paths -> {<<>>} \cup {Some(c) : c \in {<<>>, <<<<"f", "h1">>>>}}] :
                    \A p \in Paths : t[p] = <<>> \/ Unwrap(t[p]) \in FallbackContents(p)}
    /\ dirExists = TRUE
    /\ logFile = TRUE
    /\ configFile = Some("default")
    /\ contextFile = <<>>
    /\ metricsFile = <<>>
    /\ last = LastStep("none", "-", "-", FALSE)
    /\ edits = 0
    /\ mOld = Unset /\ mNew = Unset /\ mMerged = Unset /\ mCounts = Unset /\ fRun = Unset
    /\ xRun = Unset

\* update_context, lines 673-689, over the snapshot of the drawn tree with
\* entry_points empty after the ranker step; the brief is absent, or the
\* ranker's when it answered with no entry
RunFallback ==
    /\ fRun = Unset
    /\ \E brief \in {None, Some("llm brief")}, order \in HashOrders :
       LET fresh == build_context(tree, {}, dirExists,
                        CodemapChildren(logFile, configFile, contextFile, metricsFile))
           merged == [fresh EXCEPT !.project_brief = brief]
       IN \E text_ok \in SUBSET (DOMAIN merged.files) :
            fRun' = Some([merged |-> merged, text_ok |-> text_ok,
                          result |-> heuristic_fallback(merged, text_ok, order)])
    /\ UNCHANGED <<mOld, mNew, mMerged, mCounts, xRun>>
    /\ UNCHANGED sysVars

FallbackNext == RunFallback
FallbackSpec == FallbackInit /\ [][FallbackNext]_vars

\* ---------------------------------------------------------------- fallback claims
FallbackEntries == Unwrap(fRun).result.entry_points
FallbackFiles == DOMAIN Unwrap(fRun).merged.files

\* what C8 says of every fallback result over a snapshot with a readable file
FallbackShape ==
    /\ FallbackEntries # <<>>
    /\ Len(FallbackEntries) <= 7
    /\ \A i, j \in 1..Len(FallbackEntries) :
        i # j => FallbackEntries[i].path # FallbackEntries[j].path
    /\ \A i \in 1..Len(FallbackEntries) :
        /\ FallbackEntries[i].rank = (IF 10 - (i - 1) > 1 THEN 10 - (i - 1) ELSE 1)
        /\ FallbackEntries[i].rank \in 1..10
        /\ \A j \in 1..Len(FallbackEntries) :
            i < j => FallbackEntries[i].rank >= FallbackEntries[j].rank

\* C8 as stated: when the fallback runs over a snapshot with at least one
\* readable file, entry_points is non-empty with at most 7 entries of distinct
\* paths, the entry at position i has rank max(10 - i, 1), and src/main.rs, when
\* it is a snapshot file and no README is in the snapshot, is at position 0.
C8_FallbackMainWhenInSnapshot ==
    (fRun # Unset /\ Unwrap(fRun).text_ok # {}) =>
        /\ FallbackShape
        /\ ("src/main.rs" \in FallbackFiles /\ ~\E k \in FallbackFiles : IsReadme(k))
            => FallbackEntries[1].path = "src/main.rs"

\* C8 amended: the same, with src/main.rs at position 0 when it is a snapshot
\* file whose text can be read (read_to_string succeeds on it) and no README is
\* in the snapshot; a src/main.rs that cannot be read as text is not an entry.
C8_FallbackMainWhenReadable ==
    (fRun # Unset /\ Unwrap(fRun).text_ok # {}) =>
        /\ FallbackShape
        /\ ("src/main.rs" \in Unwrap(fRun).text_ok /\ ~\E k \in FallbackFiles : IsReadme(k))
            => FallbackEntries[1].path = "src/main.rs"
        /\ \A i \in 1..Len(FallbackEntries) : FallbackEntries[i].path \in Unwrap(fRun).text_ok

\* C8 witness: the fallback has run over a snapshot of eight readable files, one
\* of them in two buckets; seven entries came out, src/main.rs first with rank
\* 10 and the last with rank 4.
C8_Witness ==
    /\ fRun # Unset
    /\ Cardinality(Unwrap(fRun).text_ok) = 8
    /\ "src/bin/cli.rs" \in Unwrap(fRun).text_ok
    /\ Len(FallbackEntries) = 7
    /\ FallbackEntries[1].path = "src/main.rs"
    /\ FallbackEntries[1].rank = 10
    /\ FallbackEntries[7].rank = 4

\* ---------------------------------------------------------------- extractor
\* longest source text, in lines, handed to the extractor
MaxLines == 4

\* the lines a source text is made of
SourceLines ==
    {"fn f() {", "pub async fn g() {}", "    fn h()", "}", "} else {", "let x = 1;",
     "pub(crate) fn k() {"}

\* re.captures(line).get(3) for ^\s*(pub\s+)?(async\s+)?fn\s+(\w+): the name
\* captured on a line the pattern matches at its start, None on any other line
HeaderName(line) ==
    CASE line = "fn f() {" -> Some("f")
      [] line = "pub async fn g() {}" -> Some("g")
      [] line = "    fn h()" -> Some("h")
      [] OTHER -> None

\* line.chars(), less the characters that are neither '{' nor '}'
BraceChars(line) ==
    CASE line = "fn f() {" -> <<"{">>
      [] line = "pub async fn g() {}" -> <<"{", "}">>
      [] line = "}" -> <<"}">>
      [] line = "} else {" -> <<"}", "{">>
      [] line = "pub(crate) fn k() {" -> <<"{">>
      [] OTHER -> <<>>

\* for c in line.chars(): open += 1 on '{', open -= 1 on '}'
RECURSIVE open_after(_, _)
open_after(chars, open) ==
    IF chars = <<>> THEN open
    ELSE open_after(Tail(chars), IF Head(chars) = "{" THEN open + 1 ELSE open - 1)

\* found is set by any '{' of the line
found_after(chars, found) == found \/ InSeq(chars, "{")

\* a body that ends as soon as the depth is zero, opened or not
body_closed_unopened(open, found) == open = 0

\* if found && open == 0 { break; }
body_closed(open, found) == found /\ open = 0

\* for j in i..lines.len(): the index of the last line pushed onto body
RECURSIVE scan_body(_, _, _, _)
scan_body(lines, j, open, found) ==
    LET o == open_after(BraceChars(lines[j]), open)
        f == found_after(BraceChars(lines[j]), found)
    IN IF body_closed(o, f) \/ j = Len(lines) THEN j
       ELSE scan_body(lines, j + 1, o, f)

\* hash_string: the digest stands for the text it was computed over
hash_string(body) == <<"sha256", body>>

\* the loop for i in 0..lines.len(), from the 1-based line i on
RECURSIVE extract_from(_, _)
extract_from(lines, i) ==
    IF i > Len(lines) THEN <<>>
    ELSE IF HeaderName(lines[i]) = None THEN extract_from(lines, i + 1)
    ELSE <<FunctionInfo(Unwrap(HeaderName(lines[i])), i, None,
                        hash_string(SubSeq(lines, i, scan_body(lines, i, 0, FALSE))))>>
         \o extract_from(lines, i + 1)

extract_functions(source, lang) ==
    IF lang = "rust" THEN extract_from(source, 1) ELSE <<>>

ExtractInit ==
    /\ SysIdle
    /\ mOld = Unset /\ mNew = Unset /\ mMerged = Unset /\ mCounts = Unset
    /\ fRun = Unset
    /\ xRun = Unset

\* one call extract_functions(&contents, &lang) from build_context
RunExtract ==
    /\ xRun = Unset
    /\ \E source \in SeqsUpTo(SourceLines, MaxLines), lang \in {"rust", "python"} :
        xRun' = Some([source |-> source, lang |-> lang,
                      functions |-> extract_functions(source, lang)])
    /\ UNCHANGED <<mOld, mNew, mMerged, mCounts, fRun>>
    /\ UNCHANGED sysVars

ExtractNext == RunExtract
ExtractSpec == ExtractInit /\ [][ExtractNext]_vars

\* ---------------------------------------------------------------- extractor claims
Source == Unwrap(xRun).source
Extracted == Unwrap(xRun).functions
\* the lines that match the header pattern
HeaderLines == {i \in 1..Len(Source) : HeaderName(Source[i]) # None}
\* how many of the lines i..j hold, in all, the character c
RECURSIVE CountChar(_, _, _)
CountChar(i, j, c) ==
    IF j < i THEN 0
    ELSE CountChar(i, j - 1, c)
         + Cardinality({k \in 1..Len(BraceChars(Source[j])) : BraceChars(Source[j])[k] = c})
\* by line j a '{' has been seen since line i and the depth is back at zero
ClosedBy(i, j) == CountChar(i, j, "{") > 0 /\ CountChar(i, j, "{") = CountChar(i, j, "}")
\* the last line of the body that starts at header line i
SpanEnd(i) ==
    IF \E j \in i..Len(Source) : ClosedBy(i, j)
    THEN CHOOSE j \in i..Len(Source) :
            ClosedBy(i, j) /\ \A k \in i..(j - 1) : ~ClosedBy(i, k)
    ELSE Len(Source)
\* how many header lines there are up to line i
HeaderRank(i) == Cardinality({h \in HeaderLines : h <= i})

\* C14: for rust source extract_functions emits one record per header line, in
\* source order, with line the 1-based index of the header and hash the digest
\* of lines i..j, j the first line by which a '{' has been seen since line i and
\* the brace depth is back at zero, or the last line of the file when there is
\* none; for any other language the result is empty.
C14_ExtractorBodySpan ==
    xRun # Unset =>
        IF Unwrap(xRun).lang = "rust"
        THEN /\ Len(Extracted) = Cardinality(HeaderLines)
             /\ \A i \in HeaderLines :
                    Extracted[HeaderRank(i)] =
                        FunctionInfo(Unwrap(HeaderName(Source[i])), i, None,
                                     hash_string(SubSeq(Source, i, SpanEnd(i))))
        ELSE Extracted = <<>>

\* C14 witness: a rust source of four lines was extracted: the header on line 1
\* has its brace closed on line 3, and the header on line 4 never opens a brace
\* and still has its record.
C14_Witness ==
    /\ xRun # Unset
    /\ Unwrap(xRun).lang = "rust"
    /\ Len(Source) = 4
    /\ HeaderLines = {1, 4}
    /\ ClosedBy(1, 3) /\ ~ClosedBy(1, 2) /\ ~ClosedBy(1, 1)
    /\ ~ClosedBy(4, 4)
    /\ Len(Extracted) = 2
    /\ Extracted[1].hash = hash_string(SubSeq(Source, 1, 3))
    /\ Extracted[2].line = 4

====
